---- MODULE Spec2Model ----
(***************************************************************************)
(* Model of the RAG chatbot backend (alzuin/RAG-chatbot): the metadata     *)
(* sanitizer / merger / classifier, the context assembler, the grounding   *)
(* verifier, the transcript and profile stores, and the turn orchestrator  *)
(* (main.async_handler).                                                   *)
(*                                                                         *)
(* Python strings are TLA+ strings (TLC treats them as sequences of        *)
(* one-character strings, so Len, SubSeq and \o compute on them).  TLA+    *)
(* strings are ASCII: the pictographs that open some prompt texts are left *)
(* out and typographic punctuation is written in ASCII.  Python values of  *)
(* mixed type are tagged records, see the section "Values".                *)
(***************************************************************************)
EXTENDS Integers, Sequences, FiniteSets, TLC

(***************************************************************************)
(* Strings                                                                 *)
(***************************************************************************)
Ch(s, i) == SubSeq(s, i, i)

\* str.__contains__  (the `in` operator on two strings)
Contains(s, sub) ==
    \E i \in 1..(Len(s) - Len(sub) + 1) : SubSeq(s, i, i + Len(sub) - 1) = sub

LowerCh(c) ==
    LET UpperChars == <<"A","B","C","D","E","F","G","H","I","J","K","L","M",
                        "N","O","P","Q","R","S","T","U","V","W","X","Y","Z">>
        LowerChars == <<"a","b","c","d","e","f","g","h","i","j","k","l","m",
                        "n","o","p","q","r","s","t","u","v","w","x","y","z">>
    IN IF \E i \in 1..Len(UpperChars) : UpperChars[i] = c
       THEN LowerChars[CHOOSE i \in 1..Len(UpperChars) : UpperChars[i] = c]
       ELSE c

\* str.lower()
RECURSIVE Lower(_)
Lower(s) == IF s = "" THEN "" ELSE LowerCh(Ch(s, 1)) \o Lower(SubSeq(s, 2, Len(s)))

IsSpace(c) == c \in {" ", "\t", "\n"}

RECURSIVE LStrip(_)
LStrip(s) == IF s # "" /\ IsSpace(Ch(s, 1)) THEN LStrip(SubSeq(s, 2, Len(s))) ELSE s

RECURSIVE RStrip(_)
RStrip(s) == IF s # "" /\ IsSpace(Ch(s, Len(s))) THEN RStrip(SubSeq(s, 1, Len(s) - 1)) ELSE s

\* str.strip()
Strip(s) == RStrip(LStrip(s))

\* str.replace(",", "")
RECURSIVE StripCommas(_)
StripCommas(s) ==
    IF s = "" THEN ""
    ELSE (IF Ch(s, 1) = "," THEN "" ELSE Ch(s, 1)) \o StripCommas(SubSeq(s, 2, Len(s)))

\* str.split(",")
RECURSIVE SplitAcc(_, _)
SplitAcc(s, cur) ==
    IF s = "" THEN <<cur>>
    ELSE IF Ch(s, 1) = "," THEN <<cur>> \o SplitAcc(SubSeq(s, 2, Len(s)), "")
    ELSE SplitAcc(SubSeq(s, 2, Len(s)), cur \o Ch(s, 1))

SplitComma(s) == SplitAcc(s, "")

DigitChars == <<"0","1","2","3","4","5","6","7","8","9">>
IsDigit(c) == \E i \in 1..10 : DigitChars[i] = c
DigitVal(c) == (CHOOSE i \in 1..10 : DigitChars[i] = c) - 1

\* re.findall(r"\d{3,}", s): the maximal digit runs of length at least 3
RECURSIVE FindRuns(_, _)
FindRuns(s, cur) ==
    IF s = "" THEN (IF Len(cur) >= 3 THEN <<cur>> ELSE <<>>)
    ELSE IF IsDigit(Ch(s, 1)) THEN FindRuns(SubSeq(s, 2, Len(s)), cur \o Ch(s, 1))
    ELSE (IF Len(cur) >= 3 THEN <<cur>> ELSE <<>>) \o FindRuns(SubSeq(s, 2, Len(s)), "")

FindDigitRuns(s) == FindRuns(s, "")

\* int(s) for a string of decimal digits
RECURSIVE ParseInt(_)
ParseInt(s) ==
    IF s = "" THEN 0
    ELSE 10 * ParseInt(SubSeq(s, 1, Len(s) - 1)) + DigitVal(Ch(s, Len(s)))

\* str(n) for n >= 0
RECURSIVE IntToStr(_)
IntToStr(n) == IF n < 10 THEN DigitChars[n + 1] ELSE IntToStr(n \div 10) \o DigitChars[(n % 10) + 1]

\* f"{n:,}": decimal with thousands separators
RECURSIVE FormatThousands(_)
FormatThousands(n) ==
    IF n < 1000 THEN IntToStr(n)
    ELSE LET low == n % 1000 IN
         FormatThousands(n \div 1000) \o ","
         \o (IF low < 100 THEN "0" ELSE "") \o (IF low < 10 THEN "0" ELSE "") \o IntToStr(low)

\* "sep".join(seq)
RECURSIVE Join(_, _)
Join(sep, seq) ==
    IF seq = <<>> THEN ""
    ELSE IF Len(seq) = 1 THEN seq[1]
    ELSE seq[1] \o sep \o Join(sep, Tail(seq))

(***************************************************************************)
(* Values.  A Python / JSON value is a record [t, s, l]:                   *)
(*   t = "none"            None                                            *)
(*   t = "str"             a string, s is its text                         *)
(*   t = "int" / "bool"    a number or boolean, s is what str() gives      *)
(*   t = "list"            a list, l is the sequence of its elements       *)
(*                         (each element a scalar record of this shape)    *)
(* A dict is a function from keys to values.                               *)
(***************************************************************************)
None == [t |-> "none", s |-> "None", l |-> <<>>]
Str(x) == [t |-> "str", s |-> x, l |-> <<>>]
IntV(n) == [t |-> "int", s |-> IntToStr(n), l |-> <<>>]
Lst(elems) == [t |-> "list", s |-> "", l |-> elems]
StrList(strs) == Lst([i \in 1..Len(strs) |-> Str(strs[i])])

EmptyDict == [k \in {} |-> None]

\* dict.get(key) with the default None
Get(d, k) == IF k \in DOMAIN d THEN d[k] ELSE None

\* dict.get(key, [])
GetOrEmptyList(d, k) == IF k \in DOMAIN d THEN d[k] ELSE Lst(<<>>)

\* d[k] = v on a copy
Put(d, k, v) == [x \in DOMAIN d \cup {k} |-> IF x = k THEN v ELSE d[x]]

IsStr(v) == v.t = "str"
IsList(v) == v.t = "list"

\* bool(v): Python truthiness
Truthy(v) ==
    CASE v.t = "none" -> FALSE
      [] v.t = "str"  -> v.s # ""
      [] v.t = "int"  -> v.s # "0"
      [] v.t = "bool" -> v.s = "True"
      [] v.t = "list" -> v.l # <<>>

\* repr() of a list element
Repr(e) == IF e.t = "str" THEN "'" \o e.s \o "'" ELSE e.s

\* str(v)
PyStr(v) ==
    IF v.t = "list"
    THEN "[" \o Join(", ", [i \in 1..Len(v.l) |-> Repr(v.l[i])]) \o "]"
    ELSE v.s

\* the elements of a sequence, as a set
Range(seq) == {seq[i] : i \in 1..Len(seq)}

\* a sequence holding each element of a finite set once
RECURSIVE SeqOfSet(_)
SeqOfSet(S) ==
    IF S = {} THEN <<>>
    ELSE LET e == CHOOSE x \in S : TRUE IN <<e>> \o SeqOfSet(S \ {e})

\* list(set(a + b)): the distinct elements, in an order the program does not rely on
ListSetUnion(a, b) == Lst(SeqOfSet(Range(a.l \o b.l)))

(***************************************************************************)
(* Field schema (domains/<domain>/fields.json, fetched by                  *)
(* load_field_schema).  The file is configuration data outside the         *)
(* repository; the model fixes one schema with a field of every sanitizer  *)
(* type, one field of an undeclared type, both kinds of weight table and   *)
(* the default tier cutoffs.                                               *)
(***************************************************************************)
NoWeights == [kind |-> "none", thresholds |-> <<>>, scores |-> <<>>, options |-> <<>>]

FieldCfg(type, hasChoices, choices, weights) ==
    [type |-> type, hasChoices |-> hasChoices, choices |-> choices, weights |-> weights]

FieldOrder == <<"location", "urgency", "budget", "features", "property_type", "notes">>

MetadataFields ==
    [location |-> FieldCfg("string", FALSE, <<>>, NoWeights),
     urgency |-> FieldCfg("enum", TRUE, <<"High", "Medium", "Low">>,
                    [kind |-> "options", thresholds |-> <<>>, scores |-> <<>>,
                     options |-> << <<"high", 2>>, <<"medium", 1>>, <<"low", 0>> >>]),
     budget |-> FieldCfg("range_number", FALSE, <<>>,
                    [kind |-> "thresholds", thresholds |-> <<100000, 300000>>,
                     scores |-> <<1, 2>>, options |-> <<>>]),
     features |-> FieldCfg("list", FALSE, <<>>, NoWeights),
     property_type |-> FieldCfg("type", FALSE, <<>>,
                    [kind |-> "options", thresholds |-> <<>>, scores |-> <<>>,
                     options |-> << <<"flat", 1>> >>]),
     notes |-> FieldCfg("freeform", FALSE, <<>>, NoWeights)]

\* schema.get("lead_score_thresholds", {"Hot": 3, "Warm": 1, "Cold": 0})
HotCutoff == 3
WarmCutoff == 1

\* TLA+ strings are ASCII: "#" stands for the pound sign and "~" for the en dash
PoundSign == "#"
EnDash == "~"

(***************************************************************************)
(* Metadata sanitizers (services/validate_metadata.py)                     *)
(***************************************************************************)
sanitize_range_number(value) ==
    IF ~Truthy(value) THEN None
    ELSE LET match == FindDigitRuns(StripCommas(PyStr(value))) IN
         IF Len(match) = 2
         THEN Str(PoundSign \o FormatThousands(ParseInt(match[1])) \o EnDash
                  \o PoundSign \o FormatThousands(ParseInt(match[2])))
         ELSE IF Len(match) = 1
         THEN Str(PoundSign \o FormatThousands(ParseInt(match[1])))
         ELSE None

\* [v for v in value if v]
RECURSIVE FilterTruthy(_)
FilterTruthy(l) ==
    IF l = <<>> THEN <<>>
    ELSE (IF Truthy(Head(l)) THEN <<Head(l)>> ELSE <<>>) \o FilterTruthy(Tail(l))

sanitize_list(value) ==
    IF IsStr(value)
    THEN LET parts == SplitComma(value.s) IN
         Lst([i \in 1..Len(parts) |-> Str(Strip(parts[i]))])
    ELSE IF IsList(value)
    THEN LET kept == FilterTruthy(value.l) IN
         Lst([i \in 1..Len(kept) |-> Str(Strip(PyStr(kept[i])))])
    ELSE Lst(<<>>)

\* value[0].strip() raises AttributeError when the first element is not a string
sanitize_type_raises(value) == IsList(value) /\ value.l # <<>> /\ ~IsStr(value.l[1])

sanitize_type(value) ==
    IF IsList(value) /\ value.l # <<>> THEN Str(Lower(Strip(value.l[1].s)))
    ELSE IF IsStr(value) THEN Str(Lower(Strip(value.s)))
    ELSE None

sanitize_string(value) == IF IsStr(value) THEN Str(Strip(value.s)) ELSE None

normalize_choice(value, valid_choices) ==
    IF IsStr(value) /\ \E i \in 1..Len(valid_choices) :
                          Lower(Strip(value.s)) = Lower(valid_choices[i])
    THEN Str(valid_choices[CHOOSE i \in 1..Len(valid_choices) :
                 /\ Lower(Strip(value.s)) = Lower(valid_choices[i])
                 /\ \A j \in 1..(i - 1) : Lower(Strip(value.s)) # Lower(valid_choices[j])])
    ELSE None

\* FIELD_SANITIZERS.get(field_type)
HasSanitizer(field_type) == field_type \in {"range_number", "list", "type", "string"}

FIELD_SANITIZERS(field_type, value) ==
    CASE field_type = "range_number" -> sanitize_range_number(value)
      [] field_type = "list" -> sanitize_list(value)
      [] field_type = "type" -> sanitize_type(value)
      [] field_type = "string" -> sanitize_string(value)

\* one iteration of the loop of validate_metadata
SanitizeField(field, value) ==
    LET config == MetadataFields[field] IN
    IF config.hasChoices THEN normalize_choice(value, config.choices)
    ELSE IF HasSanitizer(config.type) THEN FIELD_SANITIZERS(config.type, value)
    ELSE value

(***************************************************************************)
(* The extraction result handed to update_and_save_metadata is whatever    *)
(* json.loads returned: an object (json = "object", d its dict) or another *)
(* JSON value (json = "other"), on which raw.get raises AttributeError.    *)
(***************************************************************************)
RawObj(d) == [json |-> "object", d |-> d]
RawOther == [json |-> "other", d |-> EmptyDict]

validate_metadata_raises(raw) ==
    \/ raw.json # "object"
    \/ \E i \in 1..Len(FieldOrder) :
          /\ ~MetadataFields[FieldOrder[i]].hasChoices
          /\ MetadataFields[FieldOrder[i]].type = "type"
          /\ sanitize_type_raises(Get(raw.d, FieldOrder[i]))

validate_metadata(raw) ==
    [k \in {"session_id"} \cup Range(FieldOrder) |->
        IF k = "session_id" THEN Get(raw.d, "session_id")
        ELSE SanitizeField(k, Get(raw.d, k))]

(***************************************************************************)
(* Lead classifier                                                         *)
(***************************************************************************)
\* the inner loop over zip(thresholds, scores): every met threshold adds its score
RECURSIVE ThresholdScore(_, _, _)
ThresholdScore(max_val, thresholds, scores) ==
    IF thresholds = <<>> \/ scores = <<>> THEN 0
    ELSE (IF max_val >= Head(thresholds) THEN Head(scores) ELSE 0)
         + ThresholdScore(max_val, Tail(thresholds), Tail(scores))

\* the loop over weights.items(): the first option equal to the value, then break
RECURSIVE OptionScore(_, _)
OptionScore(text, options) ==
    IF options = <<>> THEN 0
    ELSE IF text = Lower(Strip(Head(options)[1])) THEN Head(options)[2]
    ELSE OptionScore(text, Tail(options))

FieldScore(field_config, value) ==
    IF ~Truthy(value) \/ field_config.weights.kind = "none" THEN 0
    ELSE IF field_config.type = "range_number" /\ field_config.weights.kind = "thresholds"
    THEN LET match == FindDigitRuns(StripCommas(PyStr(value))) IN
         IF match # <<>>
         THEN ThresholdScore(ParseInt(match[Len(match)]),
                             field_config.weights.thresholds, field_config.weights.scores)
         ELSE 0
    ELSE OptionScore(Lower(Strip(PyStr(value))), field_config.weights.options)

RECURSIVE SumScores(_, _)
SumScores(metadata, fields) ==
    IF fields = <<>> THEN 0
    ELSE FieldScore(MetadataFields[Head(fields)], Get(metadata, Head(fields)))
         + SumScores(metadata, Tail(fields))

classify_lead(metadata) ==
    LET score == SumScores(metadata, FieldOrder) IN
    IF score >= HotCutoff THEN "Hot"
    ELSE IF score >= WarmCutoff THEN "Warm"
    ELSE "Cold"

(***************************************************************************)
(* Profile store (DynamoDB table chat-session-metadata) and the merge      *)
(* (services/session_metadata.py).  An item is [ts, attrs]; attrs maps an  *)
(* attribute name to a string ({"S": ..}) or a list of strings             *)
(* ({"SS": ..}).  Every save writes a new item under a fresh timestamp;    *)
(* the profile of the user is the item with the greatest timestamp.        *)
(***************************************************************************)
LatestItem(table) == CHOOSE i \in table : \A j \in table : j.ts <= i.ts

\* load_metadata: query(..., Limit=1, ScanIndexForward=False), unpacked
load_metadata(table) == IF table = {} THEN EmptyDict ELSE LatestItem(table).attrs

\* "+" of a str and a list raises TypeError
ListMergeRaises(existing, new_metadata) ==
    \E k \in DOMAIN new_metadata :
        IsList(new_metadata[k]) /\ k \in DOMAIN existing /\ ~IsList(existing[k])

\* update_and_save_metadata, lines 38-45: skips None only
SkipNone(value) == value.t = "none"

MergeNew(existing, new_metadata) ==
    [k \in DOMAIN existing \cup {x \in DOMAIN new_metadata : ~SkipNone(new_metadata[x])} |->
        IF k \in DOMAIN new_metadata /\ ~SkipNone(new_metadata[k])
        THEN IF IsList(new_metadata[k])
             THEN ListSetUnion(GetOrEmptyList(existing, k), new_metadata[k])
             ELSE new_metadata[k]
        ELSE existing[k]]

\* lines 38-48 with the tier computed from the profile as loaded, not from merged
MergeAndClassifyStale(existing, new_metadata) ==
    Put(MergeNew(existing, new_metadata), "lead_classification", Str(classify_lead(existing)))

\* lines 38-48: merge, then merged["lead_classification"] = classify_lead(merged, schema)
MergeAndClassify(existing, new_metadata) ==
    LET merged == MergeNew(existing, new_metadata) IN
    Put(merged, "lead_classification", Str(classify_lead(merged)))

\* save_metadata, line 80, without the test for blank strings
SkipEmptyNoBlankTest(value) == value.t = "none"

\* save_metadata, line 80: skips None and blank strings
SkipEmpty(value) == value.t = "none" \/ (IsStr(value) /\ Strip(value.s) = "")

SaveMerge(existing, new_metadata) ==
    [k \in DOMAIN existing \cup {x \in DOMAIN new_metadata : ~SkipEmpty(new_metadata[x])} |->
        IF k \in DOMAIN new_metadata /\ ~SkipEmpty(new_metadata[k])
        THEN IF IsList(new_metadata[k])
             THEN ListSetUnion(GetOrEmptyList(existing, k), new_metadata[k])
             ELSE Str(PyStr(new_metadata[k]))
        ELSE existing[k]]

\* {"SS": list(map(str, value))}: a string set
StringSet(value) == Lst(SeqOfSet({Str(PyStr(e)) : e \in Range(value.l)}))

\* save_metadata, lines 87-96: the attributes of the item that is put
ItemAttrs(merged) ==
    [k \in {x \in DOMAIN merged :
                \/ IsList(merged[x]) /\ merged[x].l # <<>>
                \/ IsStr(merged[x]) /\ Strip(merged[x].s) # ""} |->
        IF IsList(merged[k]) THEN StringSet(merged[k]) ELSE Str(Strip(merged[k].s))]

(***************************************************************************)
(* Facts (listings) and the texts of the model                             *)
(***************************************************************************)
Fact(external_id, address) == [payload |-> [external_id |-> external_id, address |-> address]]

F1 == Fact("L-101", "12 Oak Road")
F2 == Fact("L-202", "5 Elm Lane")

\* what get_similar_items can return
FactLists == {<<>>, <<F1>>, <<F2, F1>>}

\* main.py, lines 140-143 (typographic apostrophes and dash written in ASCII)
FallbackReply ==
    "I'm sorry - I wasn't able to find any additional listings that match your request. "
    \o "Would you like to adjust your preferences?"

\* what call_openrouter can return for the assembled context
ReplyKnown == "I recommend 12 OAK ROAD for you."
ReplyInvented == "There is a great listing at 9 Fake Street."
ReplyPlain == "How soon do you need to move?"
ReplyClarify == "Would a smaller property also work for you?"
LLMReplies == {ReplyKnown, ReplyInvented, ReplyPlain, ReplyClarify}

(***************************************************************************)
(* JSON.  json.dumps builds the text of the assistant record; json.loads   *)
(* classifies a text as an object, a list, a string, another scalar or a   *)
(* decode error, and decodes the objects json.dumps can have produced.     *)
(***************************************************************************)
Quote(s) == "\"" \o s \o "\""

DumpFact(f) ==
    "{\"payload\": {\"external_id\": " \o Quote(f.payload.external_id)
    \o ", \"address\": " \o Quote(f.payload.address) \o "}}"

\* json.dumps({"reply": reply, "similar_items": similar_items})
JsonDumps(message_data) ==
    "{\"reply\": " \o Quote(message_data.reply) \o ", \"similar_items\": ["
    \o Join(", ", [i \in 1..Len(message_data.similar_items) |->
                      DumpFact(message_data.similar_items[i])])
    \o "]}"

MessageData(reply, items) == [reply |-> reply, similar_items |-> items]

\* the records an assistant turn can hold
MessageDataUniverse ==
    {MessageData(r, f) : r \in LLMReplies \cup {FallbackReply}, f \in FactLists \cup {<<F2>>}}

DumpTable == [md \in MessageDataUniverse |-> JsonDumps(md)]

RECURSIVE AllDigits(_)
AllDigits(s) == s = "" \/ (IsDigit(Ch(s, 1)) /\ AllDigits(SubSeq(s, 2, Len(s))))

NoMessageData == MessageData("", <<>>)

\* json.loads(text): kind is "object", "list", "string", "scalar" or "error"
JsonLoads(text) ==
    LET t == Strip(text) IN
    IF \E md \in MessageDataUniverse : DumpTable[md] = t
    THEN [kind |-> "object", has_reply |-> TRUE, has_items |-> TRUE,
          data |-> CHOOSE md \in MessageDataUniverse : DumpTable[md] = t]
    ELSE IF t = "{}"
    THEN [kind |-> "object", has_reply |-> FALSE, has_items |-> FALSE, data |-> NoMessageData]
    ELSE IF t \in {"true", "false", "null"} \/ (t # "" /\ AllDigits(t))
    THEN [kind |-> "scalar", has_reply |-> FALSE, has_items |-> FALSE, data |-> NoMessageData]
    ELSE IF t = "[]"
    THEN [kind |-> "list", has_reply |-> FALSE, has_items |-> FALSE, data |-> NoMessageData]
    ELSE [kind |-> "error", has_reply |-> FALSE, has_items |-> FALSE, data |-> NoMessageData]

(***************************************************************************)
(* Transcript store (DynamoDB table chat-history, services/history.py).    *)
(* An item is [ts, role, message]; the sort key is the timestamp.          *)
(***************************************************************************)
HistoryItem(ts, role, message) == [ts |-> ts, role |-> role, message |-> message]

\* the items in ascending order of timestamp (ScanIndexForward=True)
RECURSIVE SortByTs(_)
SortByTs(table) ==
    IF table = {} THEN <<>>
    ELSE LET first == CHOOSE i \in table : \A j \in table : i.ts <= j.ts IN
         <<first>> \o SortByTs(table \ {first})

\* query(..., Limit=limit, ScanIndexForward=True): the first `limit` items in that order
load_history(table, limit) ==
    LET items == SortByTs(table) IN
    SubSeq(items, 1, IF Len(items) < limit THEN Len(items) ELSE limit)

\* load_history(user_id) in main.py uses the default limit
DefaultLimit == 10

\* put_item replaces the item that has the same key
PutItem(table, item) == {i \in table : i.ts # item.ts} \cup {item}

(***************************************************************************)
(* main.py, lines 79-89: the most recent fact set recorded in the loaded   *)
(* transcript.  `"similar_items" in message_data` raises TypeError for a   *)
(* number, boolean or null, which the except clause does not catch.        *)
(***************************************************************************)
RECURSIVE ScanPrevious(_, _)
ScanPrevious(history, i) ==
    IF i = 0 THEN [raised |-> FALSE, items |-> <<>>]
    ELSE IF history[i].role # "assistant" THEN ScanPrevious(history, i - 1)
    ELSE LET message_data == JsonLoads(history[i].message) IN
         CASE message_data.kind = "error" -> ScanPrevious(history, i - 1)
           [] message_data.kind = "scalar" -> [raised |-> TRUE, items |-> <<>>]
           [] message_data.kind = "object" /\ message_data.has_items ->
                 [raised |-> FALSE, items |-> message_data.data.similar_items]
           [] OTHER -> ScanPrevious(history, i - 1)

\* lines 80-89 with the loop running over history instead of reversed(history)
PreviousSimilarItemsOldestFirst(history) ==
    LET carriers == {i \in 1..Len(history) :
                        /\ history[i].role = "assistant"
                        /\ JsonLoads(history[i].message).has_items}
    IN [raised |-> FALSE,
        items |-> IF carriers = {} THEN <<>>
                  ELSE JsonLoads(history[CHOOSE i \in carriers :
                                            \A j \in carriers : i <= j].message).data.similar_items]

PreviousSimilarItems(history) == ScanPrevious(history, Len(history))

(***************************************************************************)
(* Context assembler (services/content_manager_or.py, prompt_helpers.py)   *)
(***************************************************************************)
Msg(role, content) == [role |-> role, content |-> content]

\* position i starts a match of  \{\s*"session_id"
RECURSIVE SkipSpaces(_, _)
SkipSpaces(s, i) == IF i <= Len(s) /\ IsSpace(Ch(s, i)) THEN SkipSpaces(s, i + 1) ELSE i

BlockStartsAt(s, i) ==
    /\ Ch(s, i) = "{"
    /\ LET j == SkipSpaces(s, i + 1)
           SessionTag == "\"session_id\""
       IN
       /\ SubSeq(s, j, j + Len(SessionTag) - 1) = SessionTag
       \* .*?\}\s*$ : a closing brace after the tag, followed by blanks only
       /\ LET r == RStrip(s) IN
          /\ Len(r) >= j + Len(SessionTag)
          /\ Ch(r, Len(r)) = "}"

\* re.sub(r"\{\s*\"session_id\".*?\}\s*$", "", content, flags=re.DOTALL)
StripSessionBlock(content) ==
    IF \E i \in 1..Len(content) : BlockStartsAt(content, i)
    THEN LET i == CHOOSE k \in 1..Len(content) :
                     /\ BlockStartsAt(content, k)
                     /\ \A m \in 1..(k - 1) : ~BlockStartsAt(content, m)
         IN SubSeq(content, 1, i - 1)
    ELSE content

\* message_data.get("reply", raw_message) raises AttributeError unless the
\* decoded value is a dict
HistoryItemRaises(item) == JsonLoads(item.message).kind \in {"list", "string", "scalar"}

HistoryContent(item) ==
    LET message_data == JsonLoads(item.message)
        content == IF message_data.kind = "object" /\ message_data.has_reply
                   THEN message_data.data.reply
                   ELSE item.message
    IN StripSessionBlock(StripSessionBlock(content))

RECURSIVE format_history_or(_)
format_history_or(history) ==
    IF history = <<>> THEN <<>>
    ELSE (IF Head(history).role \in {"user", "assistant", "system"}
          THEN <<Msg(Head(history).role, HistoryContent(Head(history)))>>
          ELSE <<>>)
         \o format_history_or(Tail(history))

format_history_or_raises(history) ==
    \E i \in 1..Len(history) : HistoryItemRaises(history[i])

\* field_schema.get("context_labels", {}) of the schema
ContextLabels ==
    << <<"location", "Location">>, <<"urgency", "Urgency">>, <<"budget", "Budget">>,
       <<"features", "Features">>, <<"property_type", "Property type">> >>

RECURSIVE LabelLines(_, _)
LabelLines(metadata, labels) ==
    IF labels = <<>> THEN <<>>
    ELSE LET value == Get(metadata, Head(labels)[1]) IN
         (IF Truthy(value)
          THEN <<"- " \o Head(labels)[2] \o ": "
                 \o (IF IsList(value)
                     THEN Join(", ", [i \in 1..Len(value.l) |-> value.l[i].s])
                     ELSE PyStr(value))>>
          ELSE <<>>)
         \o LabelLines(metadata, Tail(labels))

format_metadata_context_prompt(metadata) ==
    LET GroundingHeader ==
            "The user has already confirmed the following preferences in earlier messages. "
            \o "Do NOT change or ignore these unless the user explicitly says otherwise."
        GroundingFooter ==
            "\nContinue the conversation using this context and only update fields "
            \o "if the user clearly expresses a change."
    IN IF DOMAIN metadata = {} THEN ""
       ELSE Join("\n", <<GroundingHeader>> \o LabelLines(metadata, ContextLabels)
                       \o <<GroundingFooter>>)

\* field_schema.get("display_fields", []) of the schema
DisplayFields ==
    << [key |-> "address", label |-> "Address"],
       [key |-> "external_id", label |-> "Reference"] >>

RECURSIVE ItemLines(_, _)
ItemLines(similar_items, idx) ==
    IF idx > Len(similar_items) THEN <<>>
    ELSE <<"Property " \o IntToStr(idx) \o " of " \o IntToStr(Len(similar_items)) \o ":">>
         \o [f \in 1..Len(DisplayFields) |->
                "- " \o DisplayFields[f].label \o ": "
                \o similar_items[idx].payload[DisplayFields[f].key]]
         \o <<"">>
         \o ItemLines(similar_items, idx + 1)

\* format_similar_items_or(similar_items, field_schema)
format_similar_items_or(similar_items) ==
    IF similar_items = <<>> THEN "There are currently no matching listings."
    ELSE Join("\n",
           <<"There " \o (IF Len(similar_items) = 1 THEN "is" ELSE "are") \o " "
             \o IntToStr(Len(similar_items)) \o " matching listing"
             \o (IF Len(similar_items) > 1 THEN "s" ELSE "") \o " available:", "">>
           \o ItemLines(similar_items, 1)
           \o <<"The assistant must ONLY reference these listings. "
                \o "Do not invent additional options.">>)

ListingsHeader ==
    "Below is the ONLY set of listings available. You MUST use only these listings "
    \o "when generating your reply. Do not invent or speculate. If none are suitable, "
    \o "say so clearly and suggest adjusting filters.\n\n"

NoListingsText ==
    "There are currently no listings available that match the user's query. "
    \o "You must not invent any new listings. Wait for further input."

\* the facts message build_prompt_or is written to emit for a fact list
FactsMessage(similar_items) ==
    Msg("user", ListingsHeader \o format_similar_items_or(similar_items))

NoFactsMessage == Msg("user", NoListingsText)

\* the rendered llm_prompt template, stripped
SystemPrompt == "You are a helpful real estate assistant."

\* line 151: format_similar_items_or is called with one argument although it
\* takes two required ones, which raises TypeError before it runs
ListingsCallRaises(similar_items) == similar_items # <<>>

build_prompt_or_raises(current_message, history, similar_items, session_metadata) ==
    \/ format_history_or_raises(history)
    \/ ListingsCallRaises(similar_items)

\* lines 137-140 without the test of the role
DropSystemNoFilter(msgs) == msgs

\* lines 137-140: the history without its system messages
RECURSIVE DropSystem(_)
DropSystem(msgs) ==
    IF msgs = <<>> THEN <<>>
    ELSE (IF Head(msgs).role # "system" THEN <<Head(msgs)>> ELSE <<>>) \o DropSystem(Tail(msgs))

build_prompt_or(current_message, history, similar_items, session_metadata) ==
    LET base == <<Msg("system", Strip(SystemPrompt))>>
                \o DropSystem(format_history_or(history))
        withMeta == IF DOMAIN session_metadata # {}
                    THEN Append(base, Msg("user", format_metadata_context_prompt(session_metadata)))
                    ELSE base
        withFacts == IF similar_items # <<>>
                     THEN Append(withMeta, FactsMessage(similar_items))
                     ELSE Append(withMeta, NoFactsMessage)
        last == withFacts[Len(withFacts)]
    IN IF last.role # "user" \/ last.content # current_message
       THEN Append(withFacts, Msg("user", current_message))
       ELSE withFacts

(***************************************************************************)
(* Grounding verifier (utils/safety.py)                                    *)
(***************************************************************************)
ListingKeywords == {"listing", "property", "address", "option", "match"}

IsClarification(reply_lower) ==
    Contains(reply_lower, "would a") /\ Contains(reply_lower, "also work for you")

\* lines 25-34 with the known identifiers and addresses not lowered
MentionsKnownItemsCaseSensitive(reply_lower, similar_items) ==
    \E i \in 1..Len(similar_items) :
        \/ Contains(reply_lower, similar_items[i].payload.address)
        \/ Contains(reply_lower, similar_items[i].payload.external_id)

MentionsKnownItems(reply_lower, similar_items) ==
    \E i \in 1..Len(similar_items) :
        \/ Contains(reply_lower, Lower(similar_items[i].payload.address))
        \/ Contains(reply_lower, Lower(similar_items[i].payload.external_id))

MentionsPossibleListing(reply_lower) ==
    \E keyword \in ListingKeywords : Contains(reply_lower, keyword)

is_reply_grounded(reply_text, similar_items, must_match) ==
    LET reply_lower == Lower(reply_text) IN
    IF similar_items = <<>> THEN TRUE
    ELSE IF IsClarification(reply_lower) THEN TRUE
    ELSE IF MentionsKnownItems(reply_lower, similar_items) THEN TRUE
    ELSE IF MentionsPossibleListing(reply_lower) THEN ~must_match
    ELSE TRUE

\* main.py, line 137 passes no third argument: must_match takes its default
MustMatchDefault == FALSE

\* utils.helpers.has_valid_value
has_valid_value(value) == IsStr(value) /\ Strip(value.s) # ""

\* main.py, lines 110-114, with the urgency test left out
InjectDecisionNoUrgency(metadata) ==
    /\ has_valid_value(Get(metadata, "location"))
    /\ has_valid_value(Get(metadata, "budget"))

\* main.py, lines 110-114: inject_similar_items
InjectDecision(metadata) ==
    /\ has_valid_value(Get(metadata, "location"))
    /\ has_valid_value(Get(metadata, "urgency"))
    /\ has_valid_value(Get(metadata, "budget"))

(***************************************************************************)
(* Inputs of the model                                                     *)
(***************************************************************************)
\* invocations of the handler for one user identity
Turns == {"t1", "t2"}

\* message texts that parse_event accepts
Messages == {"I need a flat in Leeds", "42"}

\* what extract_metadata_from_user_message can return: {} on failure,
\* otherwise whatever JSON value the extraction model produced
RawEmpty == RawObj(EmptyDict)
RawComplete ==
    RawObj([location |-> Str("Leeds"), urgency |-> Str("HIGH"), budget |-> Str("250,000")])
RawBlank ==
    RawObj([location |-> Str("  "), urgency |-> None, budget |-> Str("no numbers"),
            features |-> Lst(<<>>), property_type |-> Str(""), notes |-> Str(" ")])
RawLists ==
    RawObj([features |-> StrList(<<"garden", " balcony ">>),
            property_type |-> StrList(<<" Flat">>), notes |-> IntV(5)])
RawMistyped ==
    RawObj([location |-> StrList(<<"York">>), features |-> Str("garage,"),
            notes |-> StrList(<<"x">>), session_id |-> Str("s-1")])
RawRange ==
    RawObj([location |-> Str("York"), budget |-> Str("between 90000 and 120,000"),
            urgency |-> Str("asap")])

\* budgets above the upper threshold, one with a year after the range and one
\* that names the larger amount first
RawBudgets ==
    {RawObj([budget |-> Str(b)]) :
        b \in {"350000", "200000 to 350000 by 2026", "500000 down to 90000"}}

\* a type field given as a list of numbers
RawBadType == RawObj([location |-> Str("York"), property_type |-> Lst(<<IntV(3)>>)])

ExtractionResults ==
    {RawEmpty, RawComplete, RawBlank, RawLists, RawMistyped, RawRange, RawBadType, RawOther}
    \cup RawBudgets

\* a profile item written by an earlier turn
StoredProfile ==
    [ts |-> 0,
     attrs |-> [location |-> Str("Leeds"), urgency |-> Str("High"), budget |-> Str("#250,000"),
                features |-> StrList(<<"garden">>), property_type |-> Str("flat"),
                notes |-> Str("5"), lead_classification |-> Str("Hot")]]

\* the profile item of a user who has only named a property type so far
StoredTypeOnly ==
    [ts |-> 0, attrs |-> [property_type |-> Str("flat"), lead_classification |-> Str("Warm")]]

InitialProfiles == {{}, {StoredProfile}, {StoredTypeOnly}}

\* a transcript written by an earlier turn
StoredTranscript ==
    {HistoryItem(-2, "user", "Hello"),
     HistoryItem(-1, "assistant", JsonDumps(MessageData(ReplyPlain, <<F2>>)))}

\* a transcript of two earlier turns; the later one recorded an empty fact list
LongTranscript ==
    {HistoryItem(-4, "user", "Hello"),
     HistoryItem(-3, "assistant", JsonDumps(MessageData(ReplyKnown, <<F2, F1>>))),
     HistoryItem(-2, "user", "I need a flat in Leeds"),
     HistoryItem(-1, "assistant", JsonDumps(MessageData(ReplyPlain, <<>>)))}

InitialTranscripts == {{}, StoredTranscript, LongTranscript}

(***************************************************************************)
(* State                                                                   *)
(***************************************************************************)
VARIABLES
    clock,                   \* utc_now(): the next timestamp
    transcript,              \* table chat-history of the user
    profiles,                \* table chat-session-metadata of the user
    pc,                      \* position of each turn in async_handler
    message,                 \* message
    timestamp,               \* timestamp (line 60)
    save_user_task,          \* state of save_user_task (line 68)
    history,                 \* history (line 76)
    history_limit,           \* the limit load_history was called with
    session_metadata,        \* session_metadata (lines 76 and 107)
    previous_similar_items,  \* previous_similar_items (lines 80-89)
    new_metadata_raw,        \* new_metadata_raw (line 102)
    usm_existing,            \* existing_metadata in update_and_save_metadata
    usm_merged,              \* merged in update_and_save_metadata
    save_existing,           \* existing in save_metadata
    save_item,               \* item in save_metadata
    inject_similar_items,    \* inject_similar_items (line 110)
    current_similar_items,   \* current_similar_items (line 118)
    similar_items,           \* similar_items (line 119)
    similar_items_for_prompt,\* similar_items_for_prompt (line 122)
    prompt,                  \* prompt (line 128)
    llm_reply,               \* what call_openrouter returned (line 134)
    grounding_facts,         \* the fact list handed to is_reply_grounded (line 137)
    must_match,              \* the must_match argument of is_reply_grounded
    grounded,                \* what is_reply_grounded returned
    reply,                   \* reply after the grounding check
    assistant_item,          \* the item of the assistant save (line 155)
    save_assistant_task,     \* state of the assistant save
    response                 \* what async_handler returned

stores == <<clock, transcript, profiles>>
loaded == <<history, history_limit, session_metadata, previous_similar_items>>
metaLocals == <<new_metadata_raw, usm_existing, usm_merged, save_existing, save_item>>
promptLocals == <<inject_similar_items, current_similar_items, similar_items,
                  similar_items_for_prompt, prompt>>
replyLocals == <<llm_reply, grounding_facts, must_match, grounded, reply, assistant_item>>
tasks == <<save_user_task, save_assistant_task>>

vars == <<clock, transcript, profiles, pc, message, timestamp, save_user_task, history,
          history_limit, session_metadata, previous_similar_items, new_metadata_raw, usm_existing,
          usm_merged, save_existing, save_item, inject_similar_items, similar_items,
          current_similar_items, similar_items_for_prompt, prompt, llm_reply,
          grounding_facts, must_match,
          grounded, reply,
          assistant_item, save_assistant_task, response>>

NoItem == [ts |-> -100, attrs |-> EmptyDict]
NoHistoryItem == HistoryItem(-100, "", "")
NoResponse == [status |-> 0, body |-> ""]

\* the locals that no specification draws from an input set
InitLocals ==
    /\ timestamp = [t \in Turns |-> -100]
    /\ save_user_task = [t \in Turns |-> "none"]
    /\ history_limit = [t \in Turns |-> DefaultLimit]
    /\ previous_similar_items = [t \in Turns |-> <<>>]
    /\ usm_existing = [t \in Turns |-> EmptyDict]
    /\ usm_merged = [t \in Turns |-> EmptyDict]
    /\ save_existing = [t \in Turns |-> EmptyDict]
    /\ save_item = [t \in Turns |-> NoItem]
    /\ inject_similar_items = [t \in Turns |-> FALSE]
    /\ current_similar_items = [t \in Turns |-> <<>>]
    /\ similar_items = [t \in Turns |-> <<>>]
    /\ prompt = [t \in Turns |-> <<>>]
    /\ grounded = [t \in Turns |-> TRUE]
    /\ reply = [t \in Turns |-> ""]
    /\ assistant_item = [t \in Turns |-> NoHistoryItem]
    /\ save_assistant_task = [t \in Turns |-> "none"]
    /\ response = [t \in Turns |-> NoResponse]

\* the arguments of build_prompt_or before the turn has computed them
InitPromptArgs ==
    /\ message = [t \in Turns |-> ""]
    /\ history = [t \in Turns |-> <<>>]
    /\ session_metadata = [t \in Turns |-> EmptyDict]
    /\ similar_items_for_prompt = [t \in Turns |-> <<>>]

\* the arguments of is_reply_grounded before the turn has computed them
InitReplyArgs ==
    /\ llm_reply = [t \in Turns |-> ""]
    /\ grounding_facts = [t \in Turns |-> <<>>]
    /\ must_match = [t \in Turns |-> MustMatchDefault]

\* Spec follows one invocation of the handler from its arrival to the return of
\* asyncio.run; the stores hold what earlier turns left
Init ==
    /\ clock = 1
    /\ transcript \in InitialTranscripts
    /\ profiles \in InitialProfiles
    /\ pc = [t \in Turns |-> IF t = "t1" THEN "start" ELSE "idle"]
    /\ new_metadata_raw = [t \in Turns |-> RawEmpty]
    /\ InitPromptArgs
    /\ InitReplyArgs
    /\ InitLocals

(***************************************************************************)
(* Turn orchestrator (main.async_handler, run by handler through           *)
(* asyncio.run).  One action per stretch of code between two awaits.       *)
(***************************************************************************)
\* asyncio.run (line 183) cancels the tasks still pending when async_handler returns
CancelPending(task) == IF task = "pending" THEN "cancelled" ELSE task

\* return make_response(status, ...)
Return(t, status, body) ==
    /\ response' = [response EXCEPT ![t] = [status |-> status, body |-> body]]
    /\ pc' = [pc EXCEPT ![t] = "done"]
    /\ save_user_task' = [save_user_task EXCEPT ![t] = CancelPending(@)]
    /\ save_assistant_task' = [save_assistant_task EXCEPT ![t] = CancelPending(@)]

\* except Exception (lines 164-166)
Abort(t) == Return(t, 500, "error")

\* lines 59-68: parse_event, utc_now, create_task(save_message(.., role="user"))
Start(t) ==
    /\ pc[t] = "start"
    /\ \E m \in Messages : message' = [message EXCEPT ![t] = m]
    /\ timestamp' = [timestamp EXCEPT ![t] = clock]
    /\ clock' = clock + 1
    /\ save_user_task' = [save_user_task EXCEPT ![t] = "pending"]
    /\ pc' = [pc EXCEPT ![t] = "load"]
    /\ UNCHANGED <<transcript, profiles, loaded, metaLocals, promptLocals, replyLocals,
                   save_assistant_task, response>>

\* parse_event raises ValueError: no user_id or no message
InvalidEvent(t) ==
    /\ pc[t] = "start"
    /\ Abort(t)
    /\ UNCHANGED <<stores, message, timestamp, loaded, metaLocals, promptLocals, replyLocals>>

\* save_message(user_id, message, role="user", timestamp): put_item succeeds
UserSaveDone(t) ==
    /\ save_user_task[t] = "pending"
    /\ transcript' = PutItem(transcript, HistoryItem(timestamp[t], "user", message[t]))
    /\ save_user_task' = [save_user_task EXCEPT ![t] = "done"]
    /\ UNCHANGED <<clock, profiles, pc, message, timestamp, loaded, metaLocals, promptLocals,
                   replyLocals, save_assistant_task, response>>

\* ... or raises
UserSaveFail(t) ==
    /\ save_user_task[t] = "pending"
    /\ save_user_task' = [save_user_task EXCEPT ![t] = "failed"]
    /\ UNCHANGED <<stores, pc, message, timestamp, loaded, metaLocals, promptLocals,
                   replyLocals, save_assistant_task, response>>

\* lines 72-89: gather(load_history, load_metadata), then the backward scan
LoadHistoryAndMetadata(t) ==
    /\ pc[t] = "load"
    /\ LET h == load_history(transcript, DefaultLimit)
           prev == PreviousSimilarItems(h)
       IN IF prev.raised
          THEN /\ Abort(t)
               /\ UNCHANGED loaded
          ELSE /\ history' = [history EXCEPT ![t] = h]
               /\ history_limit' = [history_limit EXCEPT ![t] = DefaultLimit]
               /\ session_metadata' = [session_metadata EXCEPT ![t] = load_metadata(profiles)]
               /\ previous_similar_items' = [previous_similar_items EXCEPT ![t] = prev.items]
               /\ pc' = [pc EXCEPT ![t] = "extract"]
               /\ UNCHANGED <<tasks, response>>
    /\ UNCHANGED <<stores, message, timestamp, metaLocals, promptLocals, replyLocals>>

\* lines 93-102: gather(extract_metadata_from_user_message, get_embedding)
Extract(t) ==
    /\ pc[t] = "extract"
    /\ \E raw \in ExtractionResults :
          new_metadata_raw' = [new_metadata_raw EXCEPT ![t] = raw]
    /\ pc' = [pc EXCEPT ![t] = "usm"]
    /\ UNCHANGED <<stores, message, timestamp, loaded, usm_existing, usm_merged, save_existing,
                   save_item, promptLocals, replyLocals, tasks, response>>

\* update_and_save_metadata, lines 34-48: validate, load the profile, merge, classify
UsmLoad(t) ==
    /\ pc[t] = "usm"
    /\ LET raw == new_metadata_raw[t]
           existing_metadata == load_metadata(profiles)
       IN IF validate_metadata_raises(raw)
             \/ ListMergeRaises(existing_metadata, validate_metadata(raw))
          THEN /\ Abort(t)
               /\ UNCHANGED <<usm_existing, usm_merged>>
          ELSE /\ usm_existing' = [usm_existing EXCEPT ![t] = existing_metadata]
               /\ usm_merged' = [usm_merged EXCEPT ![t] =
                                    MergeAndClassify(existing_metadata, validate_metadata(raw))]
               /\ pc' = [pc EXCEPT ![t] = "save_load"]
               /\ UNCHANGED <<tasks, response>>
    /\ UNCHANGED <<stores, message, timestamp, loaded, new_metadata_raw, save_existing,
                   save_item, promptLocals, replyLocals>>

\* save_metadata, lines 76-96: load the profile again, merge, build the item
SaveLoad(t) ==
    /\ pc[t] = "save_load"
    /\ LET existing == load_metadata(profiles) IN
       IF ListMergeRaises(existing, usm_merged[t])
       THEN /\ Abort(t)
            /\ UNCHANGED <<save_existing, save_item, clock>>
       ELSE /\ save_existing' = [save_existing EXCEPT ![t] = existing]
            /\ save_item' = [save_item EXCEPT ![t] =
                  [ts |-> clock, attrs |-> ItemAttrs(SaveMerge(existing, usm_merged[t]))]]
            /\ clock' = clock + 1
            /\ pc' = [pc EXCEPT ![t] = "save_put"]
            /\ UNCHANGED <<tasks, response>>
    /\ UNCHANGED <<transcript, profiles, message, timestamp, loaded, new_metadata_raw,
                   usm_existing, usm_merged, promptLocals, replyLocals>>

\* save_metadata, line 98: put_item
SavePut(t) ==
    /\ pc[t] = "save_put"
    /\ profiles' = profiles \cup {save_item[t]}
    /\ pc' = [pc EXCEPT ![t] = "reload"]
    /\ UNCHANGED <<clock, transcript, message, timestamp, loaded, metaLocals, promptLocals,
                   replyLocals, tasks, response>>

\* line 107 without the second read: the profile loaded at line 76 is used again
ReloadedProfileStale(t) == session_metadata[t]

\* line 107: session_metadata = await load_metadata(user_id)
ReloadedProfile(t) == load_metadata(profiles)

\* lines 107-114: re-read the profile, decide whether listings may be injected
Reload(t) ==
    /\ pc[t] = "reload"
    /\ LET md == ReloadedProfile(t) IN
       /\ session_metadata' = [session_metadata EXCEPT ![t] = md]
       /\ inject_similar_items' = [inject_similar_items EXCEPT ![t] = InjectDecision(md)]
    /\ pc' = [pc EXCEPT ![t] = "retrieve"]
    /\ UNCHANGED <<stores, message, timestamp, history, history_limit, previous_similar_items,
                   metaLocals, current_similar_items, similar_items,
                   similar_items_for_prompt, prompt, replyLocals,
                   tasks, response>>

\* lines 118-122: get_similar_items, the fallback to the previous facts, the gate
Retrieve(t) ==
    /\ pc[t] = "retrieve"
    /\ \E found \in FactLists :
          LET items == IF found # <<>> THEN found ELSE previous_similar_items[t]
          IN /\ current_similar_items' = [current_similar_items EXCEPT ![t] = found]
             /\ similar_items' = [similar_items EXCEPT ![t] = items]
             /\ similar_items_for_prompt' = [similar_items_for_prompt EXCEPT ![t] =
                   IF inject_similar_items[t] THEN items ELSE <<>>]
    /\ pc' = [pc EXCEPT ![t] = "build"]
    /\ UNCHANGED <<stores, message, timestamp, loaded, metaLocals, inject_similar_items,
                   prompt, replyLocals, tasks, response>>

\* line 128: prompt = build_prompt_or(message, history, similar_items_for_prompt,
\* session_metadata); an exception it raises ends the turn
BuildPrompt(t) ==
    /\ pc[t] = "build"
    /\ IF build_prompt_or_raises(message[t], history[t], similar_items_for_prompt[t],
                                 session_metadata[t])
       THEN /\ Abort(t)
            /\ UNCHANGED prompt
       ELSE /\ prompt' = [prompt EXCEPT ![t] =
                  build_prompt_or(message[t], history[t], similar_items_for_prompt[t],
                                  session_metadata[t])]
            /\ pc' = [pc EXCEPT ![t] = "llm"]
            /\ UNCHANGED <<tasks, response>>
    /\ UNCHANGED <<stores, message, timestamp, loaded, metaLocals, inject_similar_items,
                   current_similar_items, similar_items, similar_items_for_prompt,
                   replyLocals>>

\* lines 134-155: call_openrouter, is_reply_grounded, the fallback reply,
\* then gather() starts the assistant save
CallLLM(t) ==
    /\ pc[t] = "llm"
    /\ \E r \in LLMReplies :
          LET grounded_ == is_reply_grounded(r, similar_items[t], MustMatchDefault)
              final == IF grounded_ THEN r ELSE FallbackReply
          IN /\ llm_reply' = [llm_reply EXCEPT ![t] = r]
             /\ grounding_facts' = [grounding_facts EXCEPT ![t] = similar_items[t]]
             /\ must_match' = [must_match EXCEPT ![t] = MustMatchDefault]
             /\ grounded' = [grounded EXCEPT ![t] = grounded_]
             /\ reply' = [reply EXCEPT ![t] = final]
             /\ assistant_item' = [assistant_item EXCEPT ![t] =
                   HistoryItem(clock, "assistant", JsonDumps(MessageData(final, similar_items[t])))]
    /\ clock' = clock + 1
    /\ save_assistant_task' = [save_assistant_task EXCEPT ![t] = "pending"]
    /\ pc' = [pc EXCEPT ![t] = "gather"]
    /\ UNCHANGED <<transcript, profiles, message, timestamp, loaded, metaLocals, promptLocals,
                   save_user_task, response>>

\* save_message(user_id, json.dumps(message_data), role="assistant"): put_item succeeds.
\* Once the user save has raised, gather raises and async_handler returns before
\* the assistant save gets to its put_item, so the put only succeeds ahead of that.
AssistantSaveDone(t) ==
    /\ save_assistant_task[t] = "pending"
    /\ save_user_task[t] # "failed"
    /\ transcript' = PutItem(transcript, assistant_item[t])
    /\ save_assistant_task' = [save_assistant_task EXCEPT ![t] = "done"]
    /\ UNCHANGED <<clock, profiles, pc, message, timestamp, loaded, metaLocals, promptLocals,
                   replyLocals, save_user_task, response>>

\* ... or raises
AssistantSaveFail(t) ==
    /\ save_assistant_task[t] = "pending"
    /\ save_assistant_task' = [save_assistant_task EXCEPT ![t] = "failed"]
    /\ UNCHANGED <<stores, pc, message, timestamp, loaded, metaLocals, promptLocals,
                   replyLocals, save_user_task, response>>

\* lines 153-162: gather returns once both saves are done
GatherReturn(t) ==
    /\ pc[t] = "gather"
    /\ save_user_task[t] = "done"
    /\ save_assistant_task[t] = "done"
    /\ Return(t, 200, reply[t])
    /\ UNCHANGED <<stores, message, timestamp, loaded, metaLocals, promptLocals, replyLocals>>

\* gather raises as soon as one of the two saves has raised; it does not
\* wait for, or undo, the other one
GatherRaise(t) ==
    /\ pc[t] = "gather"
    /\ save_user_task[t] = "failed" \/ save_assistant_task[t] = "failed"
    /\ Abort(t)
    /\ UNCHANGED <<stores, message, timestamp, loaded, metaLocals, promptLocals, replyLocals>>

\* an awaited collaborator raises: storage, embedding, search or generation
AwaitPoints == {"load", "extract", "usm", "save_load", "save_put", "reload", "retrieve", "llm"}

CollaboratorFails(t) ==
    /\ pc[t] \in AwaitPoints
    /\ Abort(t)
    /\ UNCHANGED <<stores, message, timestamp, loaded, metaLocals, promptLocals, replyLocals>>

Next ==
    \E t \in Turns :
        \/ Start(t)
        \/ InvalidEvent(t)
        \/ UserSaveDone(t)
        \/ UserSaveFail(t)
        \/ LoadHistoryAndMetadata(t)
        \/ Extract(t)
        \/ UsmLoad(t)
        \/ SaveLoad(t)
        \/ SavePut(t)
        \/ Reload(t)
        \/ Retrieve(t)
        \/ BuildPrompt(t)
        \/ CallLLM(t)
        \/ AssistantSaveDone(t)
        \/ AssistantSaveFail(t)
        \/ GatherReturn(t)
        \/ GatherRaise(t)
        \/ CollaboratorFails(t)

Spec == Init /\ [][Next]_vars

\* SpecLive: while the event loop of asyncio.run is running, a save task that is
\* pending gets to run: its put_item returns or raises
SpecLive == Spec /\ \A t \in Turns : WF_vars(UserSaveDone(t) \/ UserSaveFail(t))

(***************************************************************************)
(* SpecMerge: two invocations for the same user that have both reached     *)
(* update_and_save_metadata (line 106), each with its extraction result.   *)
(***************************************************************************)
InitMerge ==
    /\ clock = 1
    /\ transcript = {}
    /\ profiles \in InitialProfiles
    /\ pc = [t \in Turns |-> "usm"]
    /\ new_metadata_raw \in [Turns -> ExtractionResults]
    /\ InitPromptArgs
    /\ InitReplyArgs
    /\ InitLocals

NextMerge ==
    \E t \in Turns :
        \/ UsmLoad(t)
        \/ SaveLoad(t)
        \/ SavePut(t)
        \/ CollaboratorFails(t)

SpecMerge == InitMerge /\ [][NextMerge]_vars

(***************************************************************************)
(* SpecPrompt: build_prompt_or applied to arguments drawn from bounded     *)
(* sets, among them histories holding system and foreign roles.            *)
(***************************************************************************)
MaxHistory == 2

\* role and message of the items a stored history can hold
HistoryPool ==
    {<<"user", "Hello">>,
     <<"user", "I need a flat in Leeds">>,
     <<"assistant", JsonDumps(MessageData(ReplyPlain, <<F2>>))>>,
     <<"system", "You are an older system prompt.">>,
     <<"tool", "lookup L-101">>,
     <<"user", "42">>}

RECURSIVE SeqsUpTo(_, _)
SeqsUpTo(S, n) ==
    IF n = 0 THEN {<<>>}
    ELSE LET shorter == SeqsUpTo(S, n - 1) IN
         shorter \cup {Append(q, x) : q \in shorter, x \in S}

PromptHistories ==
    {[i \in 1..Len(q) |-> HistoryItem(i, q[i][1], q[i][2])] : q \in SeqsUpTo(HistoryPool, MaxHistory)}

\* profiles as load_metadata returns them
PromptProfiles ==
    {EmptyDict,
     StoredProfile.attrs,
     [location |-> Str("Leeds"), features |-> StrList(<<"garden">>),
      lead_classification |-> Str("Cold")]}

InitPrompt ==
    /\ clock = 1
    /\ transcript = {}
    /\ profiles = {}
    /\ pc = [t \in Turns |-> IF t = "t1" THEN "build" ELSE "idle"]
    /\ new_metadata_raw = [t \in Turns |-> RawEmpty]
    /\ \E m \in Messages, h \in PromptHistories, f \in FactLists, p \in PromptProfiles :
          /\ message = [t \in Turns |-> IF t = "t1" THEN m ELSE ""]
          /\ history = [t \in Turns |-> IF t = "t1" THEN h ELSE <<>>]
          /\ similar_items_for_prompt = [t \in Turns |-> IF t = "t1" THEN f ELSE <<>>]
          /\ session_metadata = [t \in Turns |-> IF t = "t1" THEN p ELSE EmptyDict]
    /\ InitReplyArgs
    /\ InitLocals

NextPrompt == \E t \in Turns : BuildPrompt(t)

SpecPrompt == InitPrompt /\ [][NextPrompt]_vars

(***************************************************************************)
(* SpecHistory: save_message and load_history on the transcript store.     *)
(***************************************************************************)
MaxStored == 4
MaxLimit == 3

\* save_message(user_id, message, role): timestamp = utc_now(), put_item
SaveMessage(role, text) ==
    /\ Cardinality(transcript) < MaxStored
    /\ transcript' = PutItem(transcript, HistoryItem(clock, role, text))
    /\ clock' = clock + 1
    /\ UNCHANGED <<profiles, pc, message, timestamp, loaded, metaLocals, promptLocals,
                   replyLocals, tasks, response>>

\* history = load_history(user_id, limit)
LoadHistory(t, limit) ==
    /\ history' = [history EXCEPT ![t] = load_history(transcript, limit)]
    /\ history_limit' = [history_limit EXCEPT ![t] = limit]
    /\ UNCHANGED <<stores, pc, message, timestamp, session_metadata, previous_similar_items,
                   metaLocals, promptLocals, replyLocals, tasks, response>>

InitHistory ==
    /\ clock = 1
    /\ transcript = {}
    /\ profiles = {}
    /\ pc = [t \in Turns |-> "idle"]
    /\ new_metadata_raw = [t \in Turns |-> RawEmpty]
    /\ InitPromptArgs
    /\ InitReplyArgs
    /\ InitLocals

NextHistory ==
    \/ \E role \in {"user", "assistant"}, text \in {"Hello", "42"} : SaveMessage(role, text)
    \/ \E limit \in 1..MaxLimit : LoadHistory("t1", limit)

SpecHistory == InitHistory /\ [][NextHistory]_vars

(***************************************************************************)
(* SpecVerify: is_reply_grounded applied to replies, fact lists and both   *)
(* values of must_match.                                                   *)
(***************************************************************************)
VerifyReplies ==
    LLMReplies \cup
    {"Unit l-202 is an OPTION.",
     "Any Match near the park?",
     "Would a garden also work for you? No listing yet.",
     "I have no property at 5 elm lane",
     "L-10 is not an address we hold"}

\* grounded = is_reply_grounded(reply_text, similar_items, must_match)
CheckReply(t) ==
    /\ pc[t] = "verify"
    /\ grounded' = [grounded EXCEPT ![t] =
                        is_reply_grounded(llm_reply[t], grounding_facts[t], must_match[t])]
    /\ pc' = [pc EXCEPT ![t] = "verified"]
    /\ UNCHANGED <<stores, message, timestamp, loaded, metaLocals, promptLocals, llm_reply,
                   grounding_facts, must_match, reply, assistant_item, tasks, response>>

InitVerify ==
    /\ clock = 1
    /\ transcript = {}
    /\ profiles = {}
    /\ pc = [t \in Turns |-> IF t = "t1" THEN "verify" ELSE "idle"]
    /\ new_metadata_raw = [t \in Turns |-> RawEmpty]
    /\ InitPromptArgs
    /\ \E r \in VerifyReplies, f \in FactLists, mm \in BOOLEAN :
          /\ llm_reply = [t \in Turns |-> IF t = "t1" THEN r ELSE ""]
          /\ grounding_facts = [t \in Turns |-> IF t = "t1" THEN f ELSE <<>>]
          /\ must_match = [t \in Turns |-> IF t = "t1" THEN mm ELSE MustMatchDefault]
    /\ InitLocals

NextVerify == \E t \in Turns : CheckReply(t)

SpecVerify == InitVerify /\ [][NextVerify]_vars

(***************************************************************************)
(* Properties                                                              *)
(***************************************************************************)
\* build_prompt_or has returned a context to turn t
Assembled(t) == prompt[t] # <<>>

\* the fact list whose facts message a context holds, <<>> if it holds none
FactsInContext(context) ==
    IF \E f \in FactLists : f # <<>> /\ FactsMessage(f) \in Range(context)
    THEN CHOOSE f \in FactLists : f # <<>> /\ FactsMessage(f) \in Range(context)
    ELSE <<>>

\* a value the profile item keeps: a non-blank string or a non-empty list
NonEmptyValue(v) == (IsStr(v) /\ Strip(v.s) # "") \/ (IsList(v) /\ v.l # <<>>)

\* the profile holds a non-blank string for each of location, urgency and budget
ProfileComplete(profile) ==
    \A k \in {"location", "urgency", "budget"} :
        k \in DOMAIN profile /\ profile[k].t = "str" /\ Strip(profile[k].s) # ""

\* C1: build_prompt_or, given a complete profile and a non-empty fact list (and a
\* history it can project), returns a context that holds the facts message listing
\* exactly those facts in input order.
C1_FactsMessagePresent ==
    \A t \in Turns :
        (/\ pc[t] \in {"llm", "done"}
         /\ ProfileComplete(session_metadata[t])
         /\ similar_items_for_prompt[t] # <<>>
         /\ ~format_history_or_raises(history[t]))
        => /\ Assembled(t)
           /\ FactsMessage(similar_items_for_prompt[t]) \in Range(prompt[t])

\* the reply of turn t speaks of a listing and names none of the known ones
SuspectReply(t) ==
    /\ llm_reply[t] # ""
    /\ similar_items[t] # <<>>
    /\ MentionsPossibleListing(Lower(llm_reply[t]))
    /\ ~MentionsKnownItems(Lower(llm_reply[t]), similar_items[t])
    /\ ~IsClarification(Lower(llm_reply[t]))

\* C2: a reply with listing vocabulary, no known identifier or address and not the
\* clarification pattern, given against a non-empty fact set, is replaced: the reply
\* returned and the reply in the assistant record are the fallback text.
C2_SuspectReplyReplaced ==
    \A t \in Turns :
        SuspectReply(t)
        => /\ reply[t] = FallbackReply
           /\ JsonLoads(assistant_item[t].message).data.reply = FallbackReply
           /\ response[t].status = 200 => response[t].body = FallbackReply

\* an incoming value that is null, an empty string or an empty list
EmptyIncoming(v) == v.t = "none" \/ (IsStr(v) /\ Strip(v.s) = "") \/ (IsList(v) /\ v.l = <<>>)

SameValue(a, b) == a.t = b.t /\ a.s = b.s /\ Range(a.l) = Range(b.l)

\* update_and_save_metadata of turn t has put its item
Saved(t) == save_item[t] \in profiles

Kept(profile, item) ==
    \A k \in DOMAIN profile :
        NonEmptyValue(profile[k]) => k \in DOMAIN item /\ NonEmptyValue(item[k])

\* C3: once update_and_save_metadata has put its item, every key that was non-empty
\* in the profile it loaded is non-empty in that item, and a key whose incoming
\* value is null, an empty string or an empty list keeps the stored value.
C3_MergeMonotonic ==
    \A t \in Turns :
        Saved(t)
        => /\ Kept(usm_existing[t], save_item[t].attrs)
           /\ Kept(save_existing[t], save_item[t].attrs)
           /\ \A k \in DOMAIN validate_metadata(new_metadata_raw[t]) :
                 (/\ EmptyIncoming(validate_metadata(new_metadata_raw[t])[k])
                  /\ k \in DOMAIN usm_existing[t]
                  /\ k \in DOMAIN save_existing[t]
                  /\ usm_existing[t][k] = save_existing[t][k])
                 => SameValue(save_item[t].attrs[k], save_existing[t][k])

\* a stored location met a blank incoming location, and the item was put
C3_Witness ==
    \E t \in Turns :
        /\ Saved(t)
        /\ new_metadata_raw[t] = RawBlank
        /\ "location" \in DOMAIN usm_existing[t]
        /\ "features" \in DOMAIN usm_existing[t]

\* C4: under overlapping turns of one user, every key of a persisted profile item is
\* a key of every later persisted item.
C4_ConcurrentProfileGrows ==
    \A r1 \in profiles, r2 \in profiles :
        r1.ts < r2.ts => \A k \in DOMAIN r1.attrs : k \in DOMAIN r2.attrs

\* C5: a turn that returned the failure response has no assistant message in the
\* transcript store.
C5_FailureLeavesNoAssistantMessage ==
    \A t \in Turns : response[t].status = 500 => assistant_item[t] \notin transcript

\* C6: the fact list handed to the grounding verifier is the fact list of the
\* assembled context.
C6_VerifierSeesContextFacts ==
    \A t \in Turns : llm_reply[t] # "" => grounding_facts[t] = FactsInContext(prompt[t])

\* C7: the fact list in the persisted assistant record is the fact list of the
\* context of that turn.
C7_PersistedFactsWereShown ==
    \A t \in Turns :
        assistant_item[t] \in transcript
        => JsonLoads(assistant_item[t].message).data.similar_items = FactsInContext(prompt[t])

\* the `limit` newest items, oldest first
MostRecent(table, limit) ==
    LET items == SortByTs(table) IN
    SubSeq(items, IF Len(items) > limit THEN Len(items) - limit + 1 ELSE 1, Len(items))

\* C8: load_history(user_id, limit) returns the `limit` most recent messages, oldest
\* first.
C8_LoadReturnsMostRecent ==
    [][\A limit \in 1..MaxLimit :
          LoadHistory("t1", limit) => history'["t1"] = MostRecent(transcript, limit)]_vars

\* C9: when the re-read profile lacks a non-blank string for location, urgency or
\* budget, no facts are handed to build_prompt_or, and the context it returns holds
\* the no-listings message and no facts message.
C9_InjectionGated ==
    \A t \in Turns :
        /\ (pc[t] = "build" /\ ~ProfileComplete(session_metadata[t]))
           => similar_items_for_prompt[t] = <<>>
        /\ (Assembled(t) /\ ~ProfileComplete(session_metadata[t]))
           => /\ similar_items_for_prompt[t] = <<>>
              /\ NoFactsMessage \in Range(prompt[t])
              /\ FactsInContext(prompt[t]) = <<>>

\* retrieval returned facts for a profile that is not eligible, and the context was built
C9_Witness ==
    \E t \in Turns :
        /\ Assembled(t)
        /\ ~ProfileComplete(session_metadata[t])
        /\ similar_items[t] # <<>>
        /\ DOMAIN session_metadata[t] # {}

\* C10: a context returned by build_prompt_or starts with its only system message,
\* and every other message has the role user or assistant.
C10_OneLeadingSystem ==
    \A t \in Turns :
        Assembled(t)
        => /\ prompt[t][1].role = "system"
           /\ \A i \in 2..Len(prompt[t]) : prompt[t][i].role \in {"user", "assistant"}

\* a context was built from a history holding a system entry and a foreign role
C10_Witness ==
    \E t \in Turns :
        /\ Assembled(t)
        /\ \E i \in 1..Len(history[t]) : history[t][i].role = "system"
        /\ \E i \in 1..Len(history[t]) : history[t][i].role = "tool"

\* two profiles hold the same keys and values, lists compared as sets
SameProfile(a, b) == DOMAIN a = DOMAIN b /\ \A k \in DOMAIN a : SameValue(a[k], b[k])

\* turn u ran update_and_save_metadata right after turn t, on the profile t
\* persisted and with the same extraction result; no other call interleaved
RanTwice(t, u) ==
    /\ t # u /\ Saved(t) /\ Saved(u)
    /\ new_metadata_raw[t] = new_metadata_raw[u]
    /\ save_existing[t] = usm_existing[t]
    /\ save_item[t].ts < save_item[u].ts
    /\ usm_existing[u] = save_item[t].attrs
    /\ save_existing[u] = save_item[t].attrs

\* C11: when update_and_save_metadata runs twice in a row with the same sanitized
\* metadata, the profile persisted by the second run equals the one persisted by
\* the first (lists compared as sets, lead_classification included).
C11_MergeIdempotent ==
    \A t, u \in Turns :
        RanTwice(t, u) => SameProfile(save_item[u].attrs, save_item[t].attrs)

\* two runs in a row that carried fields into an empty profile
C11_Witness ==
    \E t, u \in Turns :
        /\ RanTwice(t, u)
        /\ usm_existing[t] = EmptyDict
        /\ new_metadata_raw[t] \in {RawComplete, RawLists, RawRange}

\* the reply holds an identifier or address of a fact, compared without case
NamesKnownFact(text, facts) ==
    \E i \in 1..Len(facts), key \in {"external_id", "address"} :
        Contains(Lower(text), Lower(facts[i].payload[key]))

\* the five conditions under which a reply is to be rejected
ToReject(text, facts, strict) ==
    /\ facts # <<>>
    /\ strict
    /\ ~(Contains(Lower(text), "would a") /\ Contains(Lower(text), "also work for you"))
    /\ ~NamesKnownFact(text, facts)
    /\ \E word \in {"listing", "property", "address", "option", "match"} :
           Contains(Lower(text), word)

\* C12: is_reply_grounded rejects a reply exactly when the fact list is non-empty,
\* must_match is set, the reply is not the clarification pattern, names no known
\* identifier or address (case-insensitively) and holds listing vocabulary; in
\* every other case it accepts.
C12_RejectsExactlyWhen ==
    \A t \in Turns :
        pc[t] = "verified"
        => (~grounded[t] <=> ToReject(llm_reply[t], grounding_facts[t], must_match[t]))

\* strict mode accepted a reply that names a known address in another case
C12_Witness ==
    \E t \in Turns :
        /\ pc[t] = "verified"
        /\ must_match[t]
        /\ grounded[t]
        /\ llm_reply[t] = ReplyKnown
        /\ grounding_facts[t] = <<F1>>

\* update_and_save_metadata of turn t has merged and classified
Merged(t) == usm_merged[t] # EmptyDict

\* the score paired with the highest threshold that does not exceed v
HighestThresholdScore(v, thresholds, scores) ==
    LET met == {i \in 1..Len(thresholds) : v >= thresholds[i]} IN
    IF met = {} THEN 0
    ELSE scores[CHOOSE i \in met : \A j \in met : thresholds[j] <= thresholds[i]]

\* the tier of a profile when the budget adds one score only
TierWithOneBudgetScore(profile) ==
    LET runs == FindDigitRuns(StripCommas(PyStr(Get(profile, "budget"))))
        budgetScore == IF runs = <<>> THEN 0
                       ELSE HighestThresholdScore(ParseInt(runs[Len(runs)]),
                                                  MetadataFields.budget.weights.thresholds,
                                                  MetadataFields.budget.weights.scores)
        score == budgetScore + SumScores(profile, SelectSeq(FieldOrder, LAMBDA f : f # "budget"))
    IN IF score >= HotCutoff THEN "Hot" ELSE IF score >= WarmCutoff THEN "Warm" ELSE "Cold"

\* C13: for the budget field classify_lead adds one score only, the one paired with
\* the highest threshold the upper bound of the budget reaches.
C13_OneThresholdScore ==
    \A t \in Turns :
        Merged(t) => usm_merged[t]["lead_classification"] = Str(TierWithOneBudgetScore(usm_merged[t]))

\* the raw budget of turn t is a string holding at least two runs of three or more digits
BudgetRuns(t) ==
    LET value == Get(new_metadata_raw[t].d, "budget") IN
    IF new_metadata_raw[t].json = "object" /\ IsStr(value)
    THEN FindDigitRuns(StripCommas(value.s))
    ELSE <<>>

\* C14: a raw budget with two or more digit runs is sanitized to the range built
\* from its first two runs, which the merge then carries into the profile.
C14_RangeFromFirstTwoRuns ==
    \A t \in Turns :
        (Merged(t) /\ Len(BudgetRuns(t)) >= 2)
        => Get(usm_merged[t], "budget") =
              Str(PoundSign \o FormatThousands(ParseInt(BudgetRuns(t)[1])) \o EnDash
                  \o PoundSign \o FormatThousands(ParseInt(BudgetRuns(t)[2])))

\* C15: a turn that has reached fact retrieval goes on to assemble the context,
\* whether the search returns facts, returns none or raises; without facts of its
\* own it uses the facts shown before.
C15_RetrievalFailureFallsBack ==
    [][\A t \in Turns :
          (pc[t] = "retrieve" /\ pc'[t] # "retrieve")
          => /\ pc'[t] = "build"
             /\ similar_items'[t] \in (FactLists \ {<<>>}) \cup {previous_similar_items[t]}]_vars

\* C16: once the save of the user's message has started, the message is eventually
\* persisted unless the transcript store itself fails, whatever happens to the
\* rest of the turn.
C16_UserSaveCompletes ==
    \A t \in Turns :
        (save_user_task[t] = "pending")
        ~> (\/ HistoryItem(timestamp[t], "user", message[t]) \in transcript
            \/ save_user_task[t] = "failed")

\* C17: a turn whose extraction returned {} (empty or non-JSON output) leaves the
\* persisted profile as it was before the turn; with no profile before, there is
\* no profile field after.
C17_NoUpdateLeavesProfile ==
    \A t \in Turns :
        (Saved(t) /\ new_metadata_raw[t] = RawEmpty)
        => SameProfile(load_metadata(profiles), usm_existing[t])

\* C18: the sanitizing, merging and classifying step of update_and_save_metadata
\* returns for every extraction result: it hands its merged profile on to
\* save_metadata and never raises.
C18_BadDataNeverRaises ==
    [][\A t \in Turns : UsmLoad(t) => pc'[t] = "save_load"]_vars

\* the fields declared in metadata_fields
Declared == Range(FieldOrder)

\* C19: validate_metadata returns declared fields only, so every key the merge adds
\* to the loaded profile, and every key of a persisted item that was not already
\* stored, is a declared field or the derived lead_classification.
C19_OnlyDeclaredKeys ==
    \A t \in Turns :
        /\ Merged(t) => /\ DOMAIN validate_metadata(new_metadata_raw[t]) \subseteq Declared
                        /\ DOMAIN usm_merged[t] \subseteq
                              Declared \cup {"lead_classification"} \cup DOMAIN usm_existing[t]
        /\ Saved(t) => DOMAIN save_item[t].attrs \subseteq
                           Declared \cup {"lead_classification"} \cup DOMAIN StoredProfile.attrs

\* a trimmed, non-empty string
TrimmedNonEmpty(e) == e.t = "str" /\ e.s # "" /\ Strip(e.s) = e.s

\* C20: sanitize_list returns trimmed, non-empty strings only: so are the elements
\* it returns for the raw features of a turn, and the features the merge builds
\* from them.
C20_ListElementsClean ==
    \A t \in Turns :
        Merged(t)
        => /\ \A e \in Range(sanitize_list(Get(new_metadata_raw[t].d, "features")).l) :
                  TrimmedNonEmpty(e)
           /\ \A e \in Range(GetOrEmptyList(usm_merged[t], "features").l) : TrimmedNonEmpty(e)

\* the positions of a turn after the injection decision of lines 110-114
AfterDecision == {"retrieve", "build", "llm", "gather"}

\* C21: within a turn, the profile is re-read only after update_and_save_metadata
\* has put its item, and the injection decision is taken on that re-read profile;
\* facts are retrieved only after the decision, and the generator is called only
\* after the context has been assembled.
C21_StepsOrdered ==
    \A t \in Turns :
        /\ pc[t] \in AfterDecision \cup {"reload"} => Saved(t)
        /\ pc[t] \in AfterDecision
           => /\ session_metadata[t] = save_item[t].attrs
              /\ inject_similar_items[t] = ProfileComplete(save_item[t].attrs)
        /\ (current_similar_items[t] # <<>> \/ similar_items[t] # <<>>)
           => /\ Saved(t)
              /\ session_metadata[t] = save_item[t].attrs
              /\ inject_similar_items[t] = ProfileComplete(save_item[t].attrs)
        /\ (llm_reply[t] # "" \/ pc[t] = "gather") => Assembled(t) /\ Saved(t)

\* a turn that started without a profile, stored a complete one and reached the
\* generator with the injection allowed
C21_Witness ==
    \E t \in Turns :
        /\ pc[t] = "gather"
        /\ usm_existing[t] = EmptyDict
        /\ inject_similar_items[t]

\* the fact list recorded by the newest assistant entry of h that records one
LastRecordedFacts(h) ==
    LET carriers == {i \in 1..Len(h) :
                        /\ h[i].role = "assistant"
                        /\ JsonLoads(h[i].message).kind = "object"
                        /\ JsonLoads(h[i].message).has_items}
    IN IF carriers = {} THEN <<>>
       ELSE JsonLoads(h[CHOOSE i \in carriers : \A j \in carriers : j <= i].message)
               .data.similar_items

\* get_similar_items of turn t has returned
Retrieved(t) == pc[t] \in {"build", "llm", "gather"}

TierOnLargestNumber(profile) ==
    LET runs == FindDigitRuns(StripCommas(PyStr(Get(profile, "budget"))))
        largest == CHOOSE n \in {ParseInt(runs[i]) : i \in 1..Len(runs)} :
                       \A i \in 1..Len(runs) : ParseInt(runs[i]) <= n
        budgetScore == IF runs = <<>> THEN 0
                       ELSE ThresholdScore(largest, MetadataFields.budget.weights.thresholds,
                                           MetadataFields.budget.weights.scores)
        score == budgetScore + SumScores(profile, SelectSeq(FieldOrder, LAMBDA f : f # "budget"))
    IN IF score >= HotCutoff THEN "Hot" ELSE IF score >= WarmCutoff THEN "Warm" ELSE "Cold"

\* C23: classify_lead scores the budget on its upper bound, the largest number of
\* the stored string, also when the range names the larger number first.
C23_ScoresUpperBound ==
    \A t \in Turns :
        (Merged(t) /\ IsStr(Get(usm_merged[t], "budget")))
        => usm_merged[t]["lead_classification"] = Str(TierOnLargestNumber(usm_merged[t]))

\* C24: the lead_classification of the item update_and_save_metadata has put is
\* the tier classify_lead gives for the field values of that same item.
C24_TierMatchesPersistedFields ==
    \A t \in Turns :
        Saved(t) => save_item[t].attrs["lead_classification"] = Str(classify_lead(save_item[t].attrs))

\* C25: the assembled context holds the current user message once, whether or not
\* the save of that message completed before the history was loaded (an equal
\* text stored by an earlier turn is a message of its own).
C25_CurrentMessageOnce ==
    \A t \in Turns :
        Assembled(t)
        => Cardinality({i \in 1..Len(prompt[t]) : prompt[t][i] = Msg("user", message[t])})
           = 1 + Cardinality({i \in 1..Len(history[t]) :
                                 /\ history[t][i].role = "user"
                                 /\ history[t][i].message = message[t]
                                 /\ history[t][i].ts # timestamp[t]})

\* C26: format_history_or returns for every stored history, so build_prompt_or,
\* called without facts, returns a context whatever texts the history holds.
C26_HistoryProjectionNeverFails ==
    [][\A t \in Turns :
          (BuildPrompt(t) /\ similar_items_for_prompt[t] = <<>>) => pc'[t] = "llm"]_vars

====
